---- MODULE Spec2Model ----
(***************************************************************************)
(* Model of pywikiapi.Site (src/pywikiapi/Site.py): the retry loop of      *)
(* Site.__call__, the continuation generator Site.iterate and the page     *)
(* reconciler Site.query_pages.                                            *)
(*                                                                         *)
(* Python dicts are functions whose DOMAIN is the set of keys, lists are   *)
(* sequences, a value that may be absent is a sequence of length 0 or 1.   *)
(***************************************************************************)
EXTENDS Integers, Sequences, FiniteSets, TLC

VARIABLES
    \* ---- Site configuration (Site.__init__) ----
    retry_on_connection_error,  \* self.retry_on_connection_error
    retry_on_lag_error,         \* self.retry_on_lag_error
    pre_request_delay,          \* self.pre_request_delay
    loggerLevel,                \* effective level of self.logger
    \* ---- one Site.__call__ ----
    try_count,                  \* local try_count
    try_count_conn,             \* local try_count_conn
    callState,                  \* "idle", "running", "sleeping", "returned", "raised"
    returned,                   \* <<data>> once the call has returned
    raised,                     \* <<exception>> once the call has raised
    sleeps,                     \* every time.sleep() of the call, in order
    transport,                  \* what self.request() did on every send, in order
    \* ---- one Site.iterate generator ----
    kwargs,                     \* the generator's kwargs dict
    req,                        \* the parameters of the request being made
    result,                     \* <<result>> of the last self(action, **req)
    itState,                    \* "idle", "created", "calling", "suspended",
                                \* "finished", "failed"
    itRaised,                   \* <<exception>> that ended the generator
    requests,                   \* every req passed to self(), in order
    itYielded,                  \* every value the generator yielded, in order
    results,                    \* every result self() returned to it, in order
    \* ---- one Site.query_pages generator ----
    incomplete,                 \* dict page_id -> page, in insertion order
    modified,                   \* set of page ids
    missing,                    \* set of titles
    yielded,                    \* every page query_pages yielded, in order
    pgState,                    \* "idle", "created", "running", "finished", "raised"
    pgRaised                    \* <<exception>> raised by query_pages

VARIABLES
    \* ---- the session state of a Site (lines 56, 83-84) ----
    tokens,                     \* self.tokens: token type -> token
    loginOnDemand,              \* self._loginOnDemand: <<>> is False, else <<(user, password)>>
    logged_in,                  \* self.logged_in
    sent,                       \* every request a call resolved, with the server's answer
    ops                         \* every operation the user of the Site made, with its outcome

VARIABLES
    \* ---- one Site._prepare_call ----
    call_action,                \* the action argument
    call_kwargs,                \* the kwargs argument, as the caller passed it
    auto_post_min_size,         \* self.auto_post_min_size
    maxlag,                     \* self.maxlag: <<>> is None
    method,                     \* "" before the call, then 'GET' or 'POST'
    request_kw                  \* the request_kw returned

VARIABLES
    \* ---- one Site._merge_page ----
    merge_a,                    \* the argument a
    merge_b,                    \* the argument b
    merge_out                   \* <<>> before the call, then <<outcome>>

callVars == <<retry_on_connection_error, retry_on_lag_error, pre_request_delay,
              loggerLevel, try_count, try_count_conn, callState, returned,
              raised, sleeps, transport>>

iterVars == <<kwargs, req, result, itState, itRaised, requests, itYielded,
              results>>

pagesVars == <<incomplete, modified, missing, yielded, pgState, pgRaised>>

loginVars == <<tokens, loginOnDemand, logged_in, sent, ops>>

\* the parts no retry, iterate or query_pages step touches
prepVars == <<call_action, call_kwargs, auto_post_min_size, maxlag, method, request_kw>>

mergeVars == <<merge_a, merge_b, merge_out>>

otherVars == <<loginVars, prepVars, mergeVars>>

vars == <<callVars, iterVars, pagesVars, otherVars>>

-----------------------------------------------------------------------------
(* Bounds of the model                                                     *)

\* longest sequence of sends of one call that is explored
MaxSends == 4
\* the retry budgets range over -1 .. MaxBudget
MaxBudget == 2
\* most requests one continuation stream makes
MaxCalls == 4

-----------------------------------------------------------------------------
(* Constants of the program                                                *)

\* logging levels of the standard library, as used at lines 139, 157, 182
DEBUG == 10
INFO == 20
WARNING == 30
ERROR == WARNING + 10
\* Site.__init__(retry_after_conn=5)
retry_after_conn == 5
\* response.headers.get('Retry-After', 5)
DefaultRetryAfter == 5

-----------------------------------------------------------------------------
(* Transport outcomes                                                      *)

\* Retry-After header values, as the characters of the header's text
RetryAfterTexts == { <<"2">>, <<"1", "2">>, <<"s", "o", "o", "n">> }

HeaderSets == { <<>> } \cup { [h \in {"Retry-After"} |-> t] : t \in RetryAfterTexts }

MaxlagBody == [error |-> [code |-> "maxlag", lag |-> 7]]

ErrorBodies == { [error |-> [code |-> "badtoken"]],
                 [error |-> [info |-> "no code"]] }

OkBodies == { [query |-> 1], [query |-> 2] }

\* a response of the server that request() hands back (r.ok)
Responses ==
    { [kind |-> "response", body |-> MaxlagBody, headers |-> h] : h \in HeaderSets }
    \cup
    { [kind |-> "response", body |-> b, headers |-> <<>>] : b \in ErrorBodies \cup OkBodies }

ConnectionErrorOutcome == [kind |-> "ConnectionError"]
HttpErrorOutcome == [kind |-> "HttpError", status_code |-> 500]

-----------------------------------------------------------------------------
(* No call, no generator: the parts a specification leaves out             *)

CallIdle ==
    /\ retry_on_connection_error = 0
    /\ retry_on_lag_error = 0
    /\ pre_request_delay = 0
    /\ loggerLevel = INFO
    /\ try_count = 0
    /\ try_count_conn = 0
    /\ callState = "idle"
    /\ returned = <<>>
    /\ raised = <<>>
    /\ sleeps = <<>>
    /\ transport = <<>>

IterIdle ==
    /\ kwargs = <<>>
    /\ req = <<>>
    /\ result = <<>>
    /\ itState = "idle"
    /\ itRaised = <<>>
    /\ requests = <<>>
    /\ itYielded = <<>>
    /\ results = <<>>

PagesIdle ==
    /\ incomplete = <<>>
    /\ modified = {}
    /\ missing = {}
    /\ yielded = <<>>
    /\ pgState = "idle"
    /\ pgRaised = <<>>

LoginIdle ==
    /\ tokens = <<>>
    /\ loginOnDemand = <<>>
    /\ logged_in = FALSE
    /\ sent = <<>>
    /\ ops = <<>>

\* self.auto_post_min_size and self.maxlag as __init__ sets them
DefaultAutoPostMinSize == 2000
DefaultMaxlag == 30

PrepIdle ==
    /\ call_action = ""
    /\ call_kwargs = <<>>
    /\ auto_post_min_size = DefaultAutoPostMinSize
    /\ maxlag = << DefaultMaxlag >>
    /\ method = ""
    /\ request_kw = <<>>

MergeIdle ==
    /\ merge_a = <<>>
    /\ merge_b = <<>>
    /\ merge_out = <<>>

OtherIdle == LoginIdle /\ PrepIdle /\ MergeIdle

-----------------------------------------------------------------------------
(* Helpers of Site.__call__                                                *)

\* logging.Logger.isEnabledFor
isEnabledFor(level) == level >= loggerLevel

\* 0 <= budget < count   (lines 137 and 155)
NoRetry(budget, count) == 0 <= budget /\ budget < count

DigitValue(c) ==
    CASE c = "0" -> 0 [] c = "1" -> 1 [] c = "2" -> 2 [] c = "3" -> 3
      [] c = "4" -> 4 [] c = "5" -> 5 [] c = "6" -> 6 [] c = "7" -> 7
      [] c = "8" -> 8 [] c = "9" -> 9 [] OTHER -> -1

RECURSIVE DigitsValue(_, _)
DigitsValue(text, acc) ==
    IF text = <<>> THEN acc
    ELSE DigitsValue(Tail(text), 10 * acc + DigitValue(Head(text)))

\* float(text): <<seconds>>, or <<>> when float() raises ValueError
Float(text) ==
    IF text # <<>> /\ \A i \in 1..Len(text) : DigitValue(text[i]) >= 0
    THEN << DigitsValue(text, 0) >>
    ELSE <<>>

\* RetryAfter with the header ignored: every backoff is the default
RetryAfter_HeaderIgnored(headers) == << DefaultRetryAfter >>

\* float(response.headers.get('Retry-After', 5))   (line 154)
RetryAfter(headers) ==
    IF "Retry-After" \in DOMAIN headers
    THEN Float(headers["Retry-After"])
    ELSE << DefaultRetryAfter >>

\* data['error']['code'] == 'maxlag', a KeyError counting as "no"  (148-152)
IsMaxlag(data) ==
    /\ "error" \in DOMAIN data
    /\ "code" \in DOMAIN data["error"]
    /\ data["error"]["code"] = "maxlag"

\* the pre-request pause of one loop iteration (lines 132-133)
PreDelay(log) ==
    IF pre_request_delay # 0
    THEN Append(log, [kind |-> "pre", secs |-> pre_request_delay])
    ELSE log

\* the except-branch raises: "raise exc" sits inside the isEnabledFor block
\* (lines 137-142)
ConnectionErrorRaises(count) ==
    LET no_retry_conn == NoRetry(retry_on_connection_error, count)
    IN  /\ isEnabledFor(IF no_retry_conn THEN WARNING ELSE INFO)
        /\ no_retry_conn

\* "Handle success and failure" (lines 180-189): the exception raised, if any
Resolve(data) ==
    IF "error" \in DOMAIN data
    THEN << [type |-> "ApiError", message |-> "Server API Error",
             payload |-> data["error"]] >>
    ELSE <<>>

-----------------------------------------------------------------------------
(* Site.__call__, lines 126-189: one action per outcome of self.request()  *)

Finish(data) ==
    /\ raised' = Resolve(data)
    /\ returned' = IF Resolve(data) = <<>> THEN << data >> ELSE <<>>
    /\ callState' = IF Resolve(data) = <<>> THEN "returned" ELSE "raised"

Sending ==
    /\ callState = "running"
    /\ Len(transport) < MaxSends

\* self.request() raises requests.exceptions.ConnectionError (lines 136-146)
SendConnectionError ==
    /\ Sending
    /\ try_count' = try_count + 1
    /\ try_count_conn' = try_count_conn + 1
    /\ transport' = Append(transport, ConnectionErrorOutcome)
    /\ IF ConnectionErrorRaises(try_count_conn + 1)
       THEN /\ callState' = "raised"
            /\ raised' = << [type |-> "ConnectionError"] >>
            /\ sleeps' = PreDelay(sleeps)
       ELSE /\ callState' = "running"
            /\ raised' = raised
            /\ sleeps' = Append(PreDelay(sleeps),
                                [kind |-> "conn", secs |-> retry_after_conn])
    /\ UNCHANGED <<retry_on_connection_error, retry_on_lag_error,
                   pre_request_delay, loggerLevel, returned>>

\* self.request() raises ApiError('Call failed') for a response that is not
\* r.ok (lines 427-431); __call__ does not catch it
SendHttpError ==
    /\ Sending
    /\ try_count' = try_count + 1
    /\ try_count_conn' = try_count_conn + 1
    /\ transport' = Append(transport, HttpErrorOutcome)
    /\ sleeps' = PreDelay(sleeps)
    /\ callState' = "raised"
    /\ raised' = << [type |-> "ApiError", message |-> "Call failed",
                     payload |-> [status_code |-> HttpErrorOutcome.status_code]] >>
    /\ UNCHANGED <<retry_on_connection_error, retry_on_lag_error,
                   pre_request_delay, loggerLevel, returned>>

\* self.request() returns a response (lines 147-189)
SendResponse(r) ==
    /\ Sending
    /\ try_count' = try_count + 1
    /\ try_count_conn' = try_count_conn + 1
    /\ transport' = Append(transport, r)
    /\ IF ~IsMaxlag(r.body)
       THEN /\ Finish(r.body)
            /\ sleeps' = PreDelay(sleeps)
       ELSE IF RetryAfter(r.headers) = <<>>
       THEN /\ callState' = "raised"
            /\ raised' = << [type |-> "ValueError"] >>
            /\ returned' = returned
            /\ sleeps' = PreDelay(sleeps)
       ELSE IF NoRetry(retry_on_lag_error, try_count + 1)
       THEN /\ Finish(r.body)
            /\ sleeps' = PreDelay(sleeps)
       ELSE /\ callState' = "running"
            /\ raised' = raised
            /\ returned' = returned
            /\ sleeps' = Append(PreDelay(sleeps),
                                [kind |-> "lag", secs |-> RetryAfter(r.headers)[1]])
    /\ UNCHANGED <<retry_on_connection_error, retry_on_lag_error,
                   pre_request_delay, loggerLevel>>

Budgets == -1 .. MaxBudget

\* a Site as configured by its user, at line 126 of a call
InitCall ==
    /\ retry_on_connection_error \in Budgets
    /\ retry_on_lag_error \in Budgets
    /\ pre_request_delay \in {0, 1}
    /\ loggerLevel \in {DEBUG, INFO, WARNING, ERROR}
    /\ try_count = 0
    /\ try_count_conn = 0
    /\ callState = "running"
    /\ returned = <<>>
    /\ raised = <<>>
    /\ sleeps = <<>>
    /\ transport = <<>>
    /\ IterIdle
    /\ PagesIdle
    /\ OtherIdle

NextCall ==
    \/ SendConnectionError /\ UNCHANGED <<iterVars, pagesVars, otherVars>>
    \/ SendHttpError /\ UNCHANGED <<iterVars, pagesVars, otherVars>>
    \/ \E r \in Responses : SendResponse(r) /\ UNCHANGED <<iterVars, pagesVars, otherVars>>

SpecCall == InitCall /\ [][NextCall]_vars

-----------------------------------------------------------------------------
(* Properties of Site.__call__                                             *)

IsConnectionError(o) == o.kind = "ConnectionError"
IsMaxlagResponse(o) == o.kind = "response" /\ IsMaxlag(o.body)
IsPlainResponse(o) == o.kind = "response" /\ "error" \notin DOMAIN o.body

\* number of ConnectionErrors / maxlag responses the call has met so far
ConnectionErrors == Cardinality({ i \in 1..Len(transport) : IsConnectionError(transport[i]) })
MaxlagResponses == Cardinality({ i \in 1..Len(transport) : IsMaxlagResponse(transport[i]) })

IsRetrySleep(s) == s.kind # "pre"
\* the backoff sleeps of the call (the pre-request pause left out)
RetrySleeps == SelectSeq(sleeps, IsRetrySleep)

LastOutcome == transport[Len(transport)]

\* the seconds a well-formed Retry-After header asks for, 5 without header
ExpectedBackoff(headers) ==
    IF headers = <<>> THEN 5
    ELSE IF headers["Retry-After"] = <<"2">> THEN 2
    ELSE 12

WellFormedRetryAfter(headers) ==
    headers = <<>> \/ headers["Retry-After"] \in { <<"2">>, <<"1", "2">> }

\* C1: when every send raises ConnectionError and retry_on_connection_error
\* = N >= 0, the call makes N+1 sends, sleeps retry_after_conn once before
\* each of the N retries, and then raises the ConnectionError.
C1_ConnectionBudget ==
    ( /\ retry_on_connection_error >= 0
      /\ transport # <<>>
      /\ \A i \in 1..Len(transport) : IsConnectionError(transport[i]) )
    =>
    /\ Len(transport) <= retry_on_connection_error + 1
    /\ IF Len(transport) = retry_on_connection_error + 1
       THEN /\ callState = "raised"
            /\ raised = << [type |-> "ConnectionError"] >>
            /\ RetrySleeps = [ i \in 1..retry_on_connection_error |->
                               [kind |-> "conn", secs |-> retry_after_conn] ]
       ELSE callState = "running"

\* C2: K maxlag responses (Retry-After absent or a number) followed by a body
\* without error, no connection failure and a maxlag budget that allows K
\* retries: the call sleeps K times, the i-th time for the i-th response's
\* Retry-After (5 without header), and returns the last body.
C2_MaxlagBackoff ==
    LET K == Len(transport) - 1 IN
    ( /\ transport # <<>>
      /\ \A i \in 1..K : /\ IsMaxlagResponse(transport[i])
                         /\ WellFormedRetryAfter(transport[i].headers)
      /\ IsPlainResponse(LastOutcome)
      /\ (retry_on_lag_error < 0 \/ retry_on_lag_error >= K) )
    =>
    /\ callState = "returned"
    /\ returned = << LastOutcome.body >>
    /\ RetrySleeps = [ i \in 1..K |->
                       [kind |-> "lag", secs |-> ExpectedBackoff(transport[i].headers)] ]
    /\ (pre_request_delay = 0 => Len(sleeps) = K)

C2_Witness ==
    /\ Len(transport) = 3
    /\ IsMaxlagResponse(transport[1]) /\ transport[1].headers = <<>>
    /\ IsMaxlagResponse(transport[2]) /\ transport[2].headers # <<>>
    /\ retry_on_lag_error = 2
    /\ callState = "returned"

\* C3: the two budgets are consumed independently: the ConnectionError is
\* raised only when the ConnectionErrors outnumber retry_on_connection_error,
\* and the call gives up on maxlag only when the maxlag responses outnumber
\* retry_on_lag_error.
C3_IndependentBudgets ==
    /\ (callState = "raised" /\ raised[1].type = "ConnectionError")
          => ConnectionErrors > retry_on_connection_error
    /\ (callState = "raised" /\ raised[1].type = "ApiError"
          /\ IsMaxlagResponse(LastOutcome))
          => MaxlagResponses > retry_on_lag_error

\* C4: the call never returns a body with an 'error' key; an error other than
\* maxlag, and a maxlag response that exceeds the maxlag budget, raise
\* ApiError with that error payload, with no sleep after the response.
C4_ErrorsRaiseApiError ==
    /\ callState = "returned" => "error" \notin DOMAIN returned[1]
    /\ ( /\ transport # <<>>
         /\ LastOutcome.kind = "response"
         /\ "error" \in DOMAIN LastOutcome.body
         /\ \/ ~IsMaxlag(LastOutcome.body)
            \/ (retry_on_lag_error >= 0 /\ MaxlagResponses > retry_on_lag_error) )
       =>
       /\ callState = "raised"
       /\ raised = << [type |-> "ApiError", message |-> "Server API Error",
                       payload |-> LastOutcome.body["error"]] >>
       /\ Len(RetrySleeps) = Len(transport) - 1

\* the backoff after a maxlag response: the header's seconds, 5 when the
\* header is absent or is not a number
ClaimedBackoff(headers) ==
    IF WellFormedRetryAfter(headers) THEN ExpectedBackoff(headers) ELSE 5

\* C17: every maxlag response the call retries after is followed by a sleep
\* of the Retry-After header's seconds, and of 5 seconds when the header is
\* absent or cannot be parsed as a number; the call never fails with the
\* ValueError of the parse.
C17_UnparseableRetryAfterIsDefault ==
    /\ callState = "raised" => raised[1].type # "ValueError"
    /\ \A i \in 1..Len(transport) :
          ( /\ IsMaxlagResponse(transport[i])
            /\ (i < Len(transport) \/ callState = "running") )
          => /\ Len(RetrySleeps) >= i
             /\ RetrySleeps[i] = [kind |-> "lag",
                                  secs |-> ClaimedBackoff(transport[i].headers)]

\* with a header that is absent or a number, the same holds
C17_WellFormedOnly ==
    (\A i \in 1..Len(transport) :
        transport[i].kind = "response" => WellFormedRetryAfter(transport[i].headers))
    => C17_UnparseableRetryAfterIsDefault

\* The loop of lines 128-177 past the MaxSends sends the history records.
\* try_count and try_count_conn are then above every budget the model
\* draws (MaxBudget < MaxSends), so the tests of lines 137 and 155 no longer
\* change and the counters need not be kept; a retry goes through
\* time.sleep (lines 145, 177) and back to the head of the loop.
SendPastHistory(o) ==
    /\ callState = "running"
    /\ Len(transport) = MaxSends
    /\ IF o.kind = "ConnectionError"
       THEN IF ConnectionErrorRaises(MaxSends + 1)
            THEN /\ callState' = "raised"
                 /\ raised' = << [type |-> "ConnectionError"] >>
                 /\ returned' = returned
            ELSE /\ callState' = "sleeping"
                 /\ UNCHANGED <<raised, returned>>
       ELSE IF o.kind = "HttpError"
       THEN /\ callState' = "raised"
            /\ raised' = << [type |-> "ApiError", message |-> "Call failed",
                             payload |-> [status_code |-> o.status_code]] >>
            /\ returned' = returned
       ELSE IF ~IsMaxlag(o.body) THEN Finish(o.body)
       ELSE IF RetryAfter(o.headers) = <<>>
       THEN /\ callState' = "raised"
            /\ raised' = << [type |-> "ValueError"] >>
            /\ returned' = returned
       ELSE IF NoRetry(retry_on_lag_error, MaxSends + 1) THEN Finish(o.body)
       ELSE /\ callState' = "sleeping"
            /\ UNCHANGED <<raised, returned>>
    /\ UNCHANGED <<retry_on_connection_error, retry_on_lag_error, pre_request_delay,
                   loggerLevel, try_count, try_count_conn, sleeps, transport>>

\* time.sleep returns
WakeUp ==
    /\ callState = "sleeping"
    /\ callState' = "running"
    /\ UNCHANGED <<retry_on_connection_error, retry_on_lag_error, pre_request_delay,
                   loggerLevel, try_count, try_count_conn, returned, raised, sleeps,
                   transport>>

NextCallLive ==
    \/ NextCall
    \/ \E o \in {ConnectionErrorOutcome, HttpErrorOutcome} \cup Responses :
          SendPastHistory(o) /\ UNCHANGED <<iterVars, pagesVars, otherVars>>
    \/ WakeUp /\ UNCHANGED <<iterVars, pagesVars, otherVars>>

\* every send returns or raises, every sleep ends: the loop keeps going
SpecCallLive == InitCall /\ [][NextCallLive]_vars /\ WF_vars(NextCallLive)

BothBudgetsBounded == retry_on_connection_error >= 0 /\ retry_on_lag_error >= 0

\* C20: with both budgets non-negative the call eventually returns a body or
\* raises, whatever the transport does.
C20_BoundedBudgetsResolve ==
    BothBudgetsBounded => <>(callState \in {"returned", "raised"})

\* with WARNING enabled in the logger the call does resolve, and within
\* max(budgets) + 1 sends
C20_ResolvesWhenWarningsEnabled ==
    (BothBudgetsBounded /\ isEnabledFor(WARNING)) => <>(callState \in {"returned", "raised"})

C20_SendsWhenWarningsEnabled ==
    (BothBudgetsBounded /\ isEnabledFor(WARNING) /\ callState \in {"running", "sleeping"}) =>
        \/ Len(transport) <= retry_on_connection_error
        \/ Len(transport) <= retry_on_lag_error

------------------------------------------------------------------------------
(* Two runs of Site.__call__ on the same transport outcomes                *)

LoggerLevels == {DEBUG, INFO, WARNING, ERROR}

\* logger.isEnabledFor(level) of a logger set to the level "logger"
isEnabledAt(logger, level) == level >= logger

\* lines 137-142 for a logger set to the level "logger"
ConnectionErrorRaisesAt(logger, count) ==
    LET no_retry_conn == NoRetry(retry_on_connection_error, count)
    IN  /\ isEnabledAt(logger, IF no_retry_conn THEN WARNING ELSE INFO)
        /\ no_retry_conn

\* the locals of a call at line 128
CallStart ==
    [try_count |-> 0, try_count_conn |-> 0, callState |-> "running",
     returned |-> <<>>, raised |-> <<>>, sleeps |-> <<>>]

\* lines 180-189 on the record of a run
FinishRun(run, data) ==
    [run EXCEPT !.raised = Resolve(data),
                !.returned = IF Resolve(data) = <<>> THEN << data >> ELSE <<>>,
                !.callState = IF Resolve(data) = <<>> THEN "returned" ELSE "raised",
                !.sleeps = PreDelay(run.sleeps)]

RaiseRun(run, exc) ==
    [run EXCEPT !.raised = << exc >>, !.callState = "raised",
                !.sleeps = PreDelay(run.sleeps)]

\* one iteration of the loop of lines 128-177, the send answered by o, for a
\* Site of the same configuration whose logger is set to the level "logger"
CallStep(logger, run, o) ==
    LET counted == [run EXCEPT !.try_count = run.try_count + 1,
                               !.try_count_conn = run.try_count_conn + 1]
    IN  IF o.kind = "ConnectionError"
        THEN IF ConnectionErrorRaisesAt(logger, counted.try_count_conn)
             THEN RaiseRun(counted, [type |-> "ConnectionError"])
             ELSE [counted EXCEPT !.sleeps =
                       Append(PreDelay(run.sleeps),
                              [kind |-> "conn", secs |-> retry_after_conn])]
        ELSE IF o.kind = "HttpError"
        THEN RaiseRun(counted, [type |-> "ApiError", message |-> "Call failed",
                                payload |-> [status_code |-> o.status_code]])
        ELSE IF ~IsMaxlag(o.body) THEN FinishRun(counted, o.body)
        ELSE IF RetryAfter(o.headers) = <<>>
        THEN RaiseRun(counted, [type |-> "ValueError"])
        ELSE IF NoRetry(retry_on_lag_error, counted.try_count)
        THEN FinishRun(counted, o.body)
        ELSE [counted EXCEPT !.sleeps =
                  Append(PreDelay(run.sleeps),
                         [kind |-> "lag", secs |-> RetryAfter(o.headers)[1]])]

\* the call of a Site whose logger is set to "logger", its sends answered by
\* the outcomes in order; it stops sending once it has returned or raised
RECURSIVE RunWith(_, _, _)
RunWith(logger, run, outcomes) ==
    IF outcomes = <<>> \/ run.callState # "running"
    THEN run
    ELSE RunWith(logger, CallStep(logger, run, Head(outcomes)), Tail(outcomes))

\* the run of this Site as a record
ThisRun ==
    [try_count |-> try_count, try_count_conn |-> try_count_conn,
     callState |-> callState, returned |-> returned, raised |-> raised,
     sleeps |-> sleeps]

\* what a caller can observe of a run: sends, sleeps, and how it ended
Observed(run) ==
    [sends |-> run.try_count, sleeps |-> run.sleeps, callState |-> run.callState,
     returned |-> run.returned, raised |-> run.raised]

\* the run computed from the outcomes at this Site's own logger level is the
\* run the actions produce
RunWithOwnLoggerIsThisRun ==
    /\ RunWith(loggerLevel, CallStart, transport) = ThisRun
    /\ try_count = Len(transport)

CallEnded == callState \in {"returned", "raised"}

\* C21: once the call has returned or raised, a run of the same
\* configuration on the same transport outcomes with any other logger level
\* has made the same number of sends and sleeps and ended the same way.
C21_OutcomeIndependentOfLogger ==
    CallEnded =>
        \A logger \in LoggerLevels :
            Observed(RunWith(logger, CallStart, transport)) = Observed(ThisRun)

\* among the loggers that have WARNING enabled the outcome is the same
C21_SameAmongWarningLoggers ==
    (CallEnded /\ isEnabledFor(WARNING)) =>
        \A logger \in {DEBUG, INFO, WARNING} :
            Observed(RunWith(logger, CallStart, transport)) = Observed(ThisRun)

\* two runs differ only where a ConnectionError met an exhausted budget
C21_DiffersOnlyPastConnectionBudget ==
    \A logger \in LoggerLevels :
        Observed(RunWith(logger, CallStart, transport)) # Observed(ThisRun) =>
            \E i \in 1..Len(transport) :
                /\ IsConnectionError(transport[i])
                /\ NoRetry(retry_on_connection_error, i)

-----------------------------------------------------------------------------
(* Site.iterate, lines 294-326                                             *)

\* the action of the stream: Site.query is iterate('query', ...)
action == "query"

\* dict.update: the entries of `other` replace those of `d`
Update(d, other) == other @@ d

\* NextRequest applying the adjustments first: a continuation field of the
\* same name wins
NextRequest_ContinueWins(base, res, adjustments) ==
    IF adjustments # <<>> THEN Update(Update(base, adjustments), res["continue"])
    ELSE Update(base, res["continue"])

\* the next request (lines 323-326): the base parameters, the continuation
\* fields, then the consumer's adjustments
NextRequest(base, res, adjustments) ==
    LET withContinue == Update(base, res["continue"])
    IN  IF adjustments # <<>> THEN Update(withContinue, adjustments)
        ELSE withContinue

\* lines 320-326, once `adjustments` is known: stop, or make the next call
AfterResult(res, adjustments) ==
    IF "continue" \notin DOMAIN res
    THEN /\ itState' = "finished"
         /\ UNCHANGED <<req, requests>>
    ELSE /\ Len(requests) < MaxCalls
         /\ itState' = "calling"
         /\ req' = NextRequest(kwargs, res, adjustments)
         /\ requests' = Append(requests, NextRequest(kwargs, res, adjustments))

\* the first next() on the generator: lines 304-315, up to the first call
IterateStart ==
    /\ itState = "created"
    /\ IF "rawcontinue" \in DOMAIN kwargs \/ "formatversion" \in DOMAIN kwargs
       THEN /\ itState' = "failed"
            /\ itRaised' = << [type |-> "ValueError"] >>
            /\ UNCHANGED <<kwargs, req, requests>>
       ELSE LET seeded == IF "continue" \notin DOMAIN kwargs
                          THEN Update(kwargs, "continue" :> "")
                          ELSE kwargs
                base == Update(seeded, "formatversion" :> 2)
            IN  /\ kwargs' = base
                /\ req' = base
                /\ requests' = Append(requests, base)
                /\ itState' = "calling"
                /\ itRaised' = itRaised
    /\ UNCHANGED <<result, itYielded, results>>

\* IterateCallReturns sending the next request before it yields the page
IterateCallReturns_Prefetches(res) ==
    /\ itState = "calling"
    /\ result' = << res >>
    /\ results' = Append(results, res)
    /\ IF action \in DOMAIN res
       THEN /\ itYielded' = Append(itYielded, res[action])
            /\ itState' = "suspended"
            /\ req' = req
            /\ requests' = IF "continue" \in DOMAIN res
                           THEN Append(requests, NextRequest(kwargs, res, <<>>))
                           ELSE requests
       ELSE /\ itYielded' = itYielded
            /\ AfterResult(res, <<>>)
    /\ UNCHANGED <<kwargs, itRaised>>

\* IterateCallReturns testing 'continue' before the yield: the page of the
\* last response is dropped
IterateCallReturns_StopsBeforeYield(res) ==
    /\ itState = "calling"
    /\ result' = << res >>
    /\ results' = Append(results, res)
    /\ IF action \in DOMAIN res /\ "continue" \in DOMAIN res
       THEN /\ itYielded' = Append(itYielded, res[action])
            /\ itState' = "suspended"
            /\ UNCHANGED <<req, requests>>
       ELSE /\ itYielded' = itYielded
            /\ AfterResult(res, <<>>)
    /\ UNCHANGED <<kwargs, itRaised>>

\* self(action, **req) returns `res` (lines 315-326, up to the yield or the
\* next call)
IterateCallReturns(res) ==
    /\ itState = "calling"
    /\ result' = << res >>
    /\ results' = Append(results, res)
    /\ IF action \in DOMAIN res
       THEN /\ itYielded' = Append(itYielded, res[action])
            /\ itState' = "suspended"
            /\ UNCHANGED <<req, requests>>
       ELSE /\ itYielded' = itYielded
            /\ AfterResult(res, <<>>)
    /\ UNCHANGED <<kwargs, itRaised>>

\* self(action, **req) raises: the exception ends the generator
IterateCallRaises ==
    /\ itState = "calling"
    /\ itState' = "failed"
    /\ itRaised' = << [type |-> "ApiError"] >>
    /\ UNCHANGED <<kwargs, req, result, requests, itYielded, results>>

\* the consumer asks for the next page: next(gen) is gen.send(None), and
\* gen.send(adjustments) hands the adjustments to line 317
IterateResume(adjustments) ==
    /\ itState = "suspended"
    /\ AfterResult(result[1], adjustments)
    /\ UNCHANGED <<kwargs, result, itRaised, itYielded, results>>

\* continuation objects of the server
ContinueObjects == { [continue |-> "-||", gapcontinue |-> "B"],
                     [continue |-> "||", rvcontinue |-> "7"] }

\* adjustment maps of the consumer; <<>> is None
Adjustments == { <<>>, [gapcontinue |-> "Z"] }

\* parameters the caller passes to iterate
CallerKwargs == { [titles |-> "A"],
                  [titles |-> "A", continue |-> "x"],
                  [titles |-> "A", rawcontinue |-> ""] }

WithContinue(body) == { body } \cup { Update(body, "continue" :> c) : c \in ContinueObjects }

\* bodies Site.__call__ returns to iterate
IterResults ==
    UNION { WithContinue(b) : b \in { [query |-> 1], [query |-> 2],
                                      [batchcomplete |-> TRUE] } }

InitIterate ==
    /\ CallIdle
    /\ PagesIdle
    /\ OtherIdle
    /\ kwargs \in CallerKwargs
    /\ req = <<>>
    /\ result = <<>>
    /\ itState = "created"
    /\ itRaised = <<>>
    /\ requests = <<>>
    /\ itYielded = <<>>
    /\ results = <<>>

NextIterate ==
    \/ IterateStart /\ UNCHANGED <<callVars, pagesVars, otherVars>>
    \/ \E res \in IterResults : IterateCallReturns(res) /\ UNCHANGED <<callVars, pagesVars, otherVars>>
    \/ IterateCallRaises /\ UNCHANGED <<callVars, pagesVars, otherVars>>
    \/ \E adj \in Adjustments : IterateResume(adj) /\ UNCHANGED <<callVars, pagesVars, otherVars>>

SpecIterate == InitIterate /\ [][NextIterate]_vars

-----------------------------------------------------------------------------
(* Properties of Site.iterate                                              *)

\* n results that all carry the payload key, the last one alone without
\* 'continue'
PagedToTheEnd ==
    /\ results # <<>>
    /\ \A i \in 1..Len(results) : action \in DOMAIN results[i]
    /\ \A i \in 1..Len(results) - 1 : "continue" \in DOMAIN results[i]
    /\ "continue" \notin DOMAIN results[Len(results)]

\* C5: given n responses that all carry the payload key and of which only the
\* last lacks 'continue', iterate yields the n payloads in response order,
\* has made n calls, and makes no call after the last response.
C5_YieldsEveryPage ==
    PagedToTheEnd =>
        /\ itYielded = [ i \in 1..Len(results) |-> results[i][action] ]
        /\ Len(requests) = Len(results)
        /\ itState \in {"suspended", "finished"}
        /\ itRaised = <<>>

C5_Witness ==
    /\ PagedToTheEnd
    /\ Len(results) = 3
    /\ itState = "finished"

\* m overlaid with n: every field of n, and the fields of m that n lacks
Overlay(m, n) ==
    [ k \in DOMAIN m \cup DOMAIN n |-> IF k \in DOMAIN n THEN n[k] ELSE m[k] ]

\* the caller's parameters plus continue='' (where the caller gave none) and
\* formatversion=2
BaseOf(caller) ==
    Overlay(Overlay([continue |-> ""], caller), [formatversion |-> 2])

LastRequest(log) == log[Len(log)]

\* C11: the first request is the base parameters, which never change
\* afterwards; every later request is the base overlaid with the 'continue'
\* fields of the response just received, overlaid with the adjustment map the
\* consumer sent for its page (nothing for a response without a page), so an
\* adjustment beats a continuation field of the same name.
C11_RequestOverlay ==
    [][ /\ (IterateStart /\ itState' = "calling") =>
              /\ kwargs' = BaseOf(kwargs)
              /\ requests' = << BaseOf(kwargs) >>
        /\ itState # "created" => kwargs' = kwargs
        /\ \A adj \in Adjustments :
              (IterateResume(adj) /\ itState' = "calling") =>
                 /\ Len(requests') = Len(requests) + 1
                 /\ LastRequest(requests') =
                       Overlay(Overlay(requests[1], result[1]["continue"]), adj)
        /\ \A res \in IterResults :
              (IterateCallReturns(res) /\ itState' = "calling") =>
                 /\ Len(requests') = Len(requests) + 1
                 /\ LastRequest(requests') = Overlay(requests[1], res["continue"])
      ]_vars

\* a request in which the consumer's gapcontinue replaced the server's
C11_Witness ==
    /\ Len(requests) >= 2
    /\ "continue" \in DOMAIN results[1]
    /\ "gapcontinue" \in DOMAIN results[1]["continue"]
    /\ results[1]["continue"]["gapcontinue"] = "B"
    /\ requests[2]["gapcontinue"] = "Z"
    /\ requests[2]["continue"] = "-||"
    /\ requests[2]["titles"] = "A"

\* how often the consumer has asked for a page: the first next(), and one
\* next() or send() after every page it was handed
Asks ==
    IF itState = "created" THEN 0
    ELSE 1 + Len(itYielded) - (IF itState = "suspended" THEN 1 ELSE 0)

\* the responses that carried no page but a 'continue' object
PassedOver ==
    Cardinality({ i \in 1..Len(results) :
                    action \notin DOMAIN results[i] /\ "continue" \in DOMAIN results[i] })

\* the consumer's last request for a page ended the stream without a call:
\* the page before it came without 'continue'
EndedWithoutCall ==
    /\ itState = "finished"
    /\ action \in DOMAIN results[Len(results)]

\* C18 as claimed: nothing is sent before the first page is asked for, and
\* every request of the consumer for a page accounts for exactly one call
\* (none when the stream ends for want of 'continue'), whatever the responses.
C18_OneCallPerPull ==
    /\ itState = "created" => requests = <<>>
    /\ itRaised # << [type |-> "ValueError"] >> =>
          Len(requests) = Asks - (IF EndedWithoutCall THEN 1 ELSE 0)

\* C18, amended: nothing is sent before the first page is asked for; every
\* request of the consumer for a page accounts for one call, plus one call
\* for every response received that carried 'continue' but no page (none at
\* all when the page before came without 'continue'); a call is outstanding
\* or a page has been handed over exactly when the stream has not ended.
C18_CallsPerPull ==
    /\ itState = "created" => requests = <<>> /\ results = <<>>
    /\ itRaised = << [type |-> "ValueError"] >> => requests = <<>>
    /\ itRaised # << [type |-> "ValueError"] >> =>
          Len(requests) = Asks + PassedOver - (IF EndedWithoutCall THEN 1 ELSE 0)
    /\ itState = "calling" => Len(requests) = Len(results) + 1
    /\ itState \in {"suspended", "finished"} => Len(requests) = Len(results)

\* one request of the consumer, two calls: the first response had no page
C18_Witness ==
    /\ Len(results) = 2
    /\ action \notin DOMAIN results[1]
    /\ action \in DOMAIN results[2]
    /\ itState = "suspended"
    /\ Asks = 1
    /\ Len(requests) = 2

-----------------------------------------------------------------------------
(* JSON values of a page: each value carries its Python type               *)

Scalar(v) == [type |-> "scalar", val |-> v]
List(v) == [type |-> "list", val |-> v]
Dict(v) == [type |-> "dict", val |-> v]

-----------------------------------------------------------------------------
(* Site._merge_page, lines 384-398                                         *)

\* _merge_page that replaces a by b
MergePage_KeepsLast(a, b) == [ok |-> TRUE, val |-> b]

\* _merge_page(a, b): [ok |-> TRUE, val |-> a after the merge], or
\* [ok |-> FALSE] when the merge raises TypeError
RECURSIVE MergePage(_, _)
MergePage(a, b) ==
    LET both == DOMAIN a \cap DOMAIN b
        sub(k) == MergePage(a[k].val, b[k].val)
        fails(k) ==
            IF b[k].type = "dict"
            THEN IF a[k].type = "dict" THEN ~sub(k).ok
                 ELSE DOMAIN b[k].val # {}
            ELSE IF b[k].type = "list" THEN a[k].type # "list"
            ELSE FALSE
        merged(k) ==
            IF b[k].type = "dict"
            THEN IF a[k].type = "dict" THEN Dict(sub(k).val) ELSE a[k]
            ELSE IF b[k].type = "list" THEN List(a[k].val \o b[k].val)
            ELSE b[k]
    IN  IF \E k \in both : fails(k)
        THEN [ok |-> FALSE]
        ELSE [ok |-> TRUE,
              val |-> [ k \in DOMAIN a \cup DOMAIN b |->
                          IF k \in both THEN merged(k)
                          ELSE IF k \in DOMAIN b THEN b[k]
                          ELSE a[k] ]]

-----------------------------------------------------------------------------
(* Site.query_pages, lines 328-382                                         *)

\* a dict in insertion order: a sequence of [key, val]
HasKey(d, k) == \E i \in 1..Len(d) : d[i].key = k
Get(d, k) == d[CHOOSE i \in 1..Len(d) : d[i].key = k].val
Del(d, k) == LET keep(e) == e.key # k IN SelectSeq(d, keep)
Set(d, k, v) ==
    IF HasKey(d, k)
    THEN [ i \in 1..Len(d) |-> IF d[i].key = k THEN [key |-> k, val |-> v] ELSE d[i] ]
    ELSE Append(d, [key |-> k, val |-> v])
Values(d) == [ i \in 1..Len(d) |-> d[i].val ]

\* MissingPage that does not remember the title
MissingPage_NotRemembered(st, page) ==
    IF page["title"] \notin st.missing
    THEN [st EXCEPT !.yielded = Append(@, page)]
    ELSE st

\* a page flagged 'missing' (lines 348-352)
MissingPage(st, page) ==
    IF page["title"] \notin st.missing
    THEN [st EXCEPT !.yielded = Append(@, page),
                    !.missing = @ \cup {page["title"]}]
    ELSE st

\* IsModified that finds no page modified
IsModified_Never(st, page_id) == FALSE

\* page_id in modified (line 354)
IsModified(st, page_id) == page_id \in st.modified

\* MarkModified that reports the page at once instead of at the end
MarkModified_RaisesAtOnce(st, page_id) ==
    [st EXCEPT !.modified = @ \cup {page_id},
               !.error = << [type |-> "ApiPagesModifiedError",
                             pages |-> st.modified \cup {page_id}] >>]

\* the page has been modified by someone else (lines 360-363)
MarkModified(st, page_id) == [st EXCEPT !.modified = @ \cup {page_id}]

\* the body of "for page in result['pages']" for one page (lines 348-368);
\* st holds the locals of query_pages
PageStep(st, page) ==
    IF "missing" \in DOMAIN page THEN MissingPage(st, page)
    ELSE
    LET page_id == page["pageid"] IN
    IF IsModified(st, page_id) THEN st
    ELSE IF HasKey(st.incomplete, page_id)
    THEN LET p == Get(st.incomplete, page_id)
             rest == [st EXCEPT !.incomplete = Del(@, page_id)]
         IN  IF "lastrevid" \in DOMAIN page /\ "lastrevid" \notin DOMAIN p
             THEN [rest EXCEPT !.error = << [type |-> "KeyError"] >>]
             ELSE IF "lastrevid" \in DOMAIN page /\ p["lastrevid"] # page["lastrevid"]
             THEN MarkModified(rest, page_id)
             ELSE IF MergePage(p, page).ok
             THEN [rest EXCEPT !.new_incomplete = Set(@, page_id, MergePage(p, page).val)]
             ELSE [rest EXCEPT !.error = << [type |-> "TypeError"] >>]
    ELSE [st EXCEPT !.new_incomplete = Set(@, page_id, page)]

RECURSIVE ProcessPages(_, _)
ProcessPages(st, pages) ==
    IF pages = <<>> \/ st.error # <<>> THEN st
    ELSE ProcessPages(PageStep(st, Head(pages)), Tail(pages))

\* ProcessResult taking a result without 'pages' for one with no page in it
ProcessResult_ToleratesNoPages(st, res) ==
    IF "pages" \notin DOMAIN res
    THEN [st EXCEPT !.yielded = @ \o Values(st.incomplete), !.incomplete = <<>>]
    ELSE LET done == ProcessPages([st EXCEPT !.new_incomplete = <<>>], res["pages"])
         IN  IF done.error # <<>> THEN done
             ELSE [done EXCEPT !.yielded = @ \o Values(done.incomplete),
                               !.incomplete = done.new_incomplete]

\* the body of "for result in self.query(**kwargs)" (lines 343-374)
ProcessResult(st, res) ==
    IF "pages" \notin DOMAIN res
    THEN [st EXCEPT !.error = << [type |-> "ApiError",
                                  message |-> "Missing pages element in query result"] >>]
    ELSE LET done == ProcessPages([st EXCEPT !.new_incomplete = <<>>], res["pages"])
         IN  IF done.error # <<>> THEN done
             ELSE [done EXCEPT !.yielded = @ \o Values(done.incomplete),
                               !.incomplete = done.new_incomplete]

Locals ==
    [incomplete |-> incomplete, new_incomplete |-> <<>>, modified |-> modified,
     missing |-> missing, yielded |-> yielded, error |-> <<>>, done |-> FALSE]

\* EndOfStream without the flush of the buffer
EndOfStream_NoFlush(st) ==
    [st EXCEPT !.done = TRUE,
               !.error = IF st.modified # {}
                         THEN << [type |-> "ApiPagesModifiedError",
                                  pages |-> st.modified] >>
                         ELSE <<>>]

\* the stream has ended (lines 376-382): flush, then report the modified pages
EndOfStream(st) ==
    [st EXCEPT !.yielded = @ \o Values(st.incomplete),
               !.done = TRUE,
               !.error = IF st.modified # {}
                         THEN << [type |-> "ApiPagesModifiedError",
                                  pages |-> st.modified] >>
                         ELSE <<>>]

\* the locals after a step of the generator; an exception ends it
Store(st) ==
    /\ incomplete' = st.incomplete
    /\ modified' = st.modified
    /\ missing' = st.missing
    /\ yielded' = st.yielded
    /\ pgRaised' = st.error
    /\ pgState' = IF st.error # <<>> THEN "raised"
                  ELSE IF st.done THEN "finished"
                  ELSE "running"

\* the first next() on query_pages: lines 337-342 and the start of the inner
\* generator, up to the first call
QueryPagesStart ==
    /\ pgState = "created"
    /\ IterateStart
    /\ pgState' = IF itState' = "failed" THEN "raised" ELSE "running"
    /\ pgRaised' = itRaised'
    /\ UNCHANGED <<incomplete, modified, missing, yielded>>

\* the call of the inner generator returns `res` (lines 315-326 of iterate,
\* no adjustments being sent, and 342-382): the loop body runs on
\* res['query'] when there is one, then the stream ends or the next call is made
QueryPagesCallReturns(res) ==
    /\ pgState = "running"
    /\ itState = "calling"
    /\ result' = << res >>
    /\ results' = Append(results, res)
    /\ itYielded' = IF action \in DOMAIN res THEN Append(itYielded, res[action])
                    ELSE itYielded
    /\ LET st == IF action \in DOMAIN res THEN ProcessResult(Locals, res[action])
                 ELSE Locals
       IN  IF st.error # <<>>
           THEN /\ itState' = "suspended"
                /\ UNCHANGED <<req, requests>>
                /\ Store(st)
           ELSE /\ AfterResult(res, <<>>)
                /\ IF "continue" \notin DOMAIN res THEN Store(EndOfStream(st))
                   ELSE Store(st)
    /\ UNCHANGED <<kwargs, itRaised>>

\* the call of the inner generator raises: the exception passes through
QueryPagesCallRaises ==
    /\ pgState = "running"
    /\ IterateCallRaises
    /\ pgState' = "raised"
    /\ pgRaised' = << [type |-> "ApiError"] >>
    /\ UNCHANGED <<incomplete, modified, missing, yielded>>

\* page fragments of the server
Page1a == [pageid |-> Scalar(1), lastrevid |-> Scalar(10), a |-> Scalar(1),
           revisions |-> List(<<1>>)]
Page1b == [pageid |-> Scalar(1), lastrevid |-> Scalar(10), b |-> Scalar(2),
           revisions |-> List(<<2>>)]
Page1Edited == [pageid |-> Scalar(1), lastrevid |-> Scalar(11), b |-> Scalar(2)]
Page1NoRev == [pageid |-> Scalar(1), a |-> Scalar(1)]
Page2 == [pageid |-> Scalar(2), lastrevid |-> Scalar(20), a |-> Scalar(1)]
Page3 == [pageid |-> Scalar(3), lastrevid |-> Scalar(30), a |-> Scalar(1)]
MissingX == [title |-> Scalar("X"), missing |-> Scalar(TRUE)]

\* the 'pages' lists of a response
PageLists ==
    { <<>>, <<Page1a>>, <<Page1b>>, <<Page1Edited>>, <<Page1NoRev>>,
      <<Page1a, Page2>>, <<Page1b, Page3>>,
      <<MissingX, MissingX>>, <<MissingX, Page2>> }

\* bodies Site.__call__ returns to the query stream
PagesResults ==
    UNION { { b, Update(b, "continue" :> [continue |-> "||"]) } :
            b \in { [query |-> [pages |-> l]] : l \in PageLists }
                  \cup { [query |-> [normalized |-> <<>>]],
                         [batchcomplete |-> TRUE] } }

InitPages ==
    /\ CallIdle
    /\ OtherIdle
    /\ kwargs = [titles |-> "A"]
    /\ req = <<>>
    /\ result = <<>>
    /\ itState = "created"
    /\ itRaised = <<>>
    /\ requests = <<>>
    /\ itYielded = <<>>
    /\ results = <<>>
    /\ incomplete = <<>>
    /\ modified = {}
    /\ missing = {}
    /\ yielded = <<>>
    /\ pgState = "created"
    /\ pgRaised = <<>>

NextPages ==
    \/ QueryPagesStart /\ UNCHANGED <<callVars, otherVars>>
    \/ \E res \in PagesResults : QueryPagesCallReturns(res) /\ UNCHANGED <<callVars, otherVars>>
    \/ QueryPagesCallRaises /\ UNCHANGED <<callVars, otherVars>>

SpecPages == InitPages /\ [][NextPages]_vars

-----------------------------------------------------------------------------
(* The history of a query stream, read off the results the server sent     *)

IsMissing(page) == "missing" \in DOMAIN page

\* the 'pages' list of the k-th result the inner generator yielded
PagesOf(k) ==
    IF "pages" \in DOMAIN itYielded[k] THEN itYielded[k]["pages"] ELSE <<>>

\* the number of results the inner generator yielded
Seen == Len(itYielded)

\* response k has a (non-missing) fragment of page id
Mentions(k, id) ==
    \E n \in 1..Len(PagesOf(k)) :
        ~IsMissing(PagesOf(k)[n]) /\ PagesOf(k)[n]["pageid"] = id

Fragment(k, id) ==
    PagesOf(k)[CHOOSE n \in 1..Len(PagesOf(k)) :
                ~IsMissing(PagesOf(k)[n]) /\ PagesOf(k)[n]["pageid"] = id]

AllIds ==
    UNION { { PagesOf(k)[n]["pageid"] :
                n \in { x \in 1..Len(PagesOf(k)) : ~IsMissing(PagesOf(k)[x]) } } :
            k \in 1..Seen }

MissingTitles ==
    UNION { { PagesOf(k)[n]["title"] :
                n \in { x \in 1..Len(PagesOf(k)) : IsMissing(PagesOf(k)[x]) } } :
            k \in 1..Seen }

\* no exception but the end-of-stream report of modified pages
Healthy == pgRaised = <<>> \/ pgRaised[1].type = "ApiPagesModifiedError"

\* the stream ran to its end
Ended ==
    \/ pgState = "finished"
    \/ pgState = "raised" /\ pgRaised[1].type = "ApiPagesModifiedError"

\* a run of id: a maximal stretch of consecutive responses that mention it
RunEndsAt(id, j) ==
    /\ Mentions(j, id)
    /\ j < Seen => ~Mentions(j + 1, id)

RunStart(id, j) ==
    CHOOSE i \in 1..j : /\ \A k \in i..j : Mentions(k, id)
                        /\ i = 1 \/ ~Mentions(i - 1, id)

\* the run is over: a later response left the page out, or the stream ended
RunCompleteAt(id, j) ==
    /\ RunEndsAt(id, j)
    /\ j < Seen \/ Ended

Runs(id) == { j \in 1..Seen : RunEndsAt(id, j) }
CompleteRuns(id) == { j \in 1..Seen : RunCompleteAt(id, j) }

\* how often a page id has been yielded
YieldsIn(log, id) ==
    Cardinality({ n \in 1..Len(log) : ~IsMissing(log[n]) /\ log[n]["pageid"] = id })

MissingYieldsIn(log, title) ==
    Cardinality({ n \in 1..Len(log) : IsMissing(log[n]) /\ log[n]["title"] = title })

IsNormal(page) == ~IsMissing(page)

\* the lastrevid of the entity buffered for id once response k is processed:
\* that of the run's latest fragment that has one; <<>> if none has
LatestRev(id, k) ==
    LET with == { i \in RunStart(id, k)..k : "lastrevid" \in DOMAIN Fragment(i, id) }
    IN  IF with = {} THEN <<>>
        ELSE << Fragment(CHOOSE i \in with : \A o \in with : o <= i, id)["lastrevid"] >>

\* response k+1 brings a fragment of id whose lastrevid differs
Clash(id, k) ==
    /\ k < Seen
    /\ Mentions(k, id) /\ Mentions(k + 1, id)
    /\ "lastrevid" \in DOMAIN Fragment(k + 1, id)
    /\ LatestRev(id, k) # <<>>
    /\ LatestRev(id, k)[1] # Fragment(k + 1, id)["lastrevid"]

\* the page ids for which two fragments with differing lastrevid met
ClashedIds == { id \in AllIds : \E k \in 1..Seen : Clash(id, k) }

\* the fields of the fragments of the run i..j of id, put together: a list
\* field is the concatenation, any other field the latest value
RECURSIVE ConcatField(_, _, _, _)
ConcatField(id, f, k, j) ==
    IF k > j THEN <<>>
    ELSE (IF f \in DOMAIN Fragment(k, id) THEN Fragment(k, id)[f].val ELSE <<>>)
         \o ConcatField(id, f, k + 1, j)

WholeEntity(id, j) ==
    LET i == RunStart(id, j)
        fields == UNION { DOMAIN Fragment(k, id) : k \in i..j }
        last(f) == CHOOSE k \in i..j :
                      /\ f \in DOMAIN Fragment(k, id)
                      /\ \A o \in i..j : f \in DOMAIN Fragment(o, id) => o <= k
    IN  [ f \in fields |->
            IF Fragment(last(f), id)[f].type = "list"
            THEN List(ConcatField(id, f, i, j))
            ELSE Fragment(last(f), id)[f] ]

\* the entities whose run ended with response j, in the order of that
\* response; a page whose lastrevid changed on the way is not among them
CompletedAt(j) ==
    LET ends(page) == /\ IsNormal(page)
                      /\ RunCompleteAt(page["pageid"], j)
                      /\ \A k \in 1..j - 1 : ~Clash(page["pageid"], k)
        done == SelectSeq(PagesOf(j), ends)
    IN  [ n \in 1..Len(done) |-> WholeEntity(done[n]["pageid"], j) ]

RECURSIVE CompletedFrom(_)
CompletedFrom(j) ==
    IF j > Seen THEN <<>> ELSE CompletedAt(j) \o CompletedFrom(j + 1)

-----------------------------------------------------------------------------
(* Properties of Site.query_pages                                          *)

\* response A = (entity1-partial, entity2-partial), response B =
\* (entity1-rest, entity3-full), no continuation after B
ScenarioAB ==
    results = << [query |-> [pages |-> <<Page1a, Page2>>],
                  continue |-> [continue |-> "||"]],
                 [query |-> [pages |-> <<Page1b, Page3>>]] >>

\* the last response received mentions page id
LastResponseMentions(id) ==
    /\ action \in DOMAIN results[Len(results)]
    /\ Mentions(Seen, id)

\* C6, amended: among the results that carry a 'query' payload, an entity
\* whose fragments come in consecutive results with equal lastrevid is yielded
\* once, with the fields of all of them, as soon as such a result leaves it
\* out or the stream ends; so the entities come in order of completion.  For
\* A = (1a, 2), B = (1b, 3) the yields are page 2, the merged page 1, page 3,
\* and nothing is raised.
C6_MergedInOrderOfCompletion ==
    /\ Healthy => SelectSeq(yielded, IsNormal) = CompletedFrom(1)
    /\ ScenarioAB =>
          /\ yielded = << Page2,
                          [pageid |-> Scalar(1), lastrevid |-> Scalar(10),
                           a |-> Scalar(1), b |-> Scalar(2),
                           revisions |-> List(<<1, 2>>)],
                          Page3 >>
          /\ pgState = "finished"
          /\ pgRaised = <<>>

\* C6 as claimed: the same, and every response that has been processed has
\* flushed the entities it does not mention: what is still buffered is
\* mentioned by the last response.
C6_FlushedByEveryResponse ==
    /\ C6_MergedInOrderOfCompletion
    /\ (pgState = "running" /\ results # <<>>) =>
          \A n \in 1..Len(incomplete) : LastResponseMentions(incomplete[n].key)

C6_Witness == ScenarioAB /\ pgState = "finished" /\ Len(yielded) = 3

\* C7 as claimed: a page id in the modified set is never yielded in the stream
C7_ModifiedNeverYielded ==
    \A id \in modified : YieldsIn(yielded, id) = 0

\* C7, amended: once a page id is in the modified set it is not yielded
\* any more (the step that detects the change yields it neither), its
\* fragments are not buffered, and the ApiPagesModifiedError at the end of
\* the stream carries exactly the ids whose fragments had differing lastrevid.
C7_ModifiedNotYieldedAfterwards ==
    /\ [][ \A id \in modified' : YieldsIn(yielded', id) = YieldsIn(yielded, id) ]_vars
    /\ [] ( /\ \A id \in modified : ~HasKey(incomplete, id)
            /\ Healthy => modified = ClashedIds
            /\ Ended =>
                 IF ClashedIds = {} THEN pgRaised = <<>>
                 ELSE pgRaised = << [type |-> "ApiPagesModifiedError",
                                     pages |-> ClashedIds] >> )

C7_Witness ==
    /\ pgState = "raised"
    /\ pgRaised[1].type = "ApiPagesModifiedError"
    /\ Len(results) = 4
    /\ \E id \in modified : YieldsIn(yielded, id) = 1

\* C8 as claimed: every surviving page id is yielded exactly once per stream
C8_ExactlyOncePerStream ==
    Healthy => \A id \in AllIds \ modified :
                  /\ YieldsIn(yielded, id) <= 1
                  /\ Ended => YieldsIn(yielded, id) = 1

\* C8, amended: every surviving page id is yielded exactly once for each run
\* of consecutive responses that mention it, when the run is over; an id that
\* is left out of a response and comes back is yielded once more.
C8_ExactlyOncePerRun ==
    Healthy => \A id \in AllIds \ modified :
                  /\ YieldsIn(yielded, id) = Cardinality(CompleteRuns(id))
                  /\ Ended => YieldsIn(yielded, id) = Cardinality(Runs(id))

C8_Witness ==
    /\ pgState = "finished"
    /\ \E id \in AllIds : Cardinality(Runs(id)) = 2 /\ YieldsIn(yielded, id) = 2

\* C9: ApiPagesModifiedError is raised only when the stream has ended and the
\* buffered entities have been yielded; a detected change does not stop the
\* requests, and nothing is yielded after the error.
C9_ModifiedReportedLast ==
    /\ [] ( (pgRaised # <<>> /\ pgRaised[1].type = "ApiPagesModifiedError") =>
              /\ itState = "finished"
              /\ "continue" \notin DOMAIN results[Len(results)]
              /\ Len(requests) = Len(results)
              /\ Len(yielded) >= Len(incomplete)
              /\ SubSeq(yielded, Len(yielded) - Len(incomplete) + 1, Len(yielded))
                   = Values(incomplete) )
    /\ [] ( (modified # {} /\ pgState = "running") =>
              /\ itState = "calling"
              /\ "continue" \in DOMAIN results[Len(results)]
              /\ Len(requests) = Len(results) + 1 )
    /\ [][ pgState = "raised" => yielded' = yielded ]_vars

C9_Witness ==
    /\ pgState = "raised"
    /\ pgRaised[1].type = "ApiPagesModifiedError"
    /\ Len(results) = 3
    /\ Clash(Scalar(1), 1)
    /\ incomplete # <<>>

\* C10: a missing entity is yielded the first time its title is seen and
\* never again, and missing entities are neither buffered nor merged.
C10_MissingYieldedOnce ==
    /\ Healthy => /\ \A t \in MissingTitles : MissingYieldsIn(yielded, t) = 1
                  /\ missing = MissingTitles
    /\ \A n \in 1..Len(yielded) : IsMissing(yielded[n]) => yielded[n] = MissingX
    /\ \A n \in 1..Len(incomplete) : IsNormal(incomplete[n].val)

C10_Witness ==
    /\ Len(results) = 3
    /\ \A k \in 1..3 : \E n \in 1..Len(PagesOf(k)) : IsMissing(PagesOf(k)[n])
    /\ Len(PagesOf(1)) = 2 /\ IsMissing(PagesOf(1)[1]) /\ IsMissing(PagesOf(1)[2])
    /\ Healthy
    /\ MissingYieldsIn(yielded, Scalar("X")) = 1

\* the error of line 344
MissingPagesError ==
    [type |-> "ApiError", message |-> "Missing pages element in query result"]

LastResult == results[Len(results)]

HasPayload(res) == action \in DOMAIN res
PayloadWithoutPages(res) == HasPayload(res) /\ "pages" \notin DOMAIN res[action]

\* C16 as claimed: whenever the response just received has no 'pages' field,
\* be it in a 'query' payload without 'pages' or for want of any 'query'
\* payload, query_pages has raised ApiError('Missing pages element in query
\* result').
C16_EveryResponseWithoutPagesFails ==
    (pgState # "created" /\ results # <<>>) =>
        ( (~HasPayload(LastResult) \/ PayloadWithoutPages(LastResult))
          => pgRaised = << MissingPagesError >> )

\* C16, amended: query_pages raises that ApiError exactly for a response whose
\* 'query' payload has no 'pages' field.  A response with no 'query' payload
\* never reaches query_pages: nothing is raised for it, the next request is
\* made when it carries 'continue' (only the failure of that next call can
\* then end the stream), and the stream ends normally (or with the report of
\* the modified pages) when it does not.
C16_PayloadWithoutPagesFails ==
    (pgState # "created" /\ results # <<>>) =>
        /\ PayloadWithoutPages(LastResult) =>
              /\ pgState = "raised"
              /\ pgRaised = << MissingPagesError >>
        /\ pgRaised = << MissingPagesError >> => PayloadWithoutPages(LastResult)
        /\ (~HasPayload(LastResult) /\ "continue" \in DOMAIN LastResult) =>
              /\ Len(requests) = Len(results) + 1
              /\ \/ pgState = "running" /\ pgRaised = <<>> /\ itState = "calling"
                 \/ itState = "failed" /\ pgRaised = itRaised
        /\ (~HasPayload(LastResult) /\ "continue" \notin DOMAIN LastResult) =>
              /\ itState = "finished"
              /\ pgState = "finished" \/ pgRaised = << [type |-> "ApiPagesModifiedError",
                                                        pages |-> modified] >>

\* a response without 'query' was passed over, a later 'query' without
\* 'pages' made query_pages fail
C16_Witness ==
    /\ Len(results) >= 2
    /\ ~HasPayload(results[1])
    /\ PayloadWithoutPages(LastResult)
    /\ pgRaised = << MissingPagesError >>

-----------------------------------------------------------------------------
(* Login and tokens: Site.login (261-276), Site.token (400-410) and the    *)
(* login-on-demand step of Site.__call__ (118-122).  The routines call one *)
(* another, so they are operators over the session record `st`; a resolved *)
(* call takes the server's next answer from st.feed.                       *)

\* operations of the user in one behaviour
MaxOps == 3

\* the most requests one operation resolves: token fetch, login, own request
MaxFeed == 3

TokenValues == { "t1", "t2" }
LoginResults == { "Success", "Failed" }
TokenTypes == { "login", "csrf" }
Users == { << "u1", "p1" >> }

\* what the server does with one request: the call raises ApiError, or
\* returns a body built from `result` (a login) or `token` (a token fetch)
Answers ==
    { [kind |-> "raise", result |-> "Failed", token |-> "t1"] } \cup
    { [kind |-> "ok", result |-> r, token |-> t] : r \in LoginResults, t \in TokenValues }

Feeds == UNION { [1..n -> Answers] : n \in 0..MaxFeed }

\* token_type + 'token' (line 409)
TokenKey(type) == IF type = "login" THEN "logintoken" ELSE "csrftoken"

\* the body the server returns for a request
Respond(request, answer) ==
    IF request["action"] = "login"
    THEN [login |-> [result |-> answer.result]]
    ELSE IF "meta" \in DOMAIN request
         THEN [query |-> [tokens |-> (TokenKey(request["type"]) :> answer.token)]]
         ELSE [query |-> [pages |-> <<>>]]

\* the CAPS parameters _prepare_call removes (lines 205-207)
Magic == { "POST", "SSL", "HTTPS", "EXTRAS", "NO_LOGIN" }

\* the parameters that reach the server (lines 205-207, 240)
Wire(act, kw) ==
    [ k \in (DOMAIN kw \ Magic) \cup {"action"} |->
        IF k = "action" THEN act ELSE kw[k] ]

ApiErrorOf(message) == [type |-> "ApiError", message |-> message]
Starved == [type |-> "no answer"]

\* lines 124-189 of a call, resolved: the request is sent and the server's
\* answer is returned or raised
Send(st, request) ==
    IF st.feed = <<>>
    THEN [st EXCEPT !.exc = << Starved >>]
    ELSE LET answer == Head(st.feed)
             body == IF answer.kind = "raise" THEN [raised |-> "ApiError"]
                     ELSE Respond(request, answer)
             sentNow == [st EXCEPT !.sent = Append(@, [request |-> request, answer |-> body]),
                                   !.feed = Tail(@)]
         IN  IF answer.kind = "raise"
             THEN [sentNow EXCEPT !.exc = << ApiErrorOf("Server API Error") >>]
             ELSE [sentNow EXCEPT !.ret = Respond(request, answer)]

\* the test of lines 118-121
LoginFirst(st, act, kw) ==
    /\ st.lod # <<>>
    /\ act # "login"
    /\ ("NO_LOGIN" \notin DOMAIN kw \/ ~kw["NO_LOGIN"])

RECURSIVE SiteCall(_, _, _)
RECURSIVE Login(_, _, _, _)
RECURSIVE Token(_, _)

\* Site.__call__
SiteCall(st, act, kw) ==
    LET ready == IF LoginFirst(st, act, kw)
                 THEN Login(st, st.lod[1][1], st.lod[1][2], FALSE)
                 ELSE st
    IN  IF ready.exc # <<>> THEN ready ELSE Send(ready, Wire(act, kw))

\* Login that takes every answer of the server for a success
Login_AnyResult(st, user, password, on_demand) ==
    LET cleared == [st EXCEPT !.tokens = <<>>]
    IN  IF on_demand
        THEN [cleared EXCEPT !.lod = << << user, password >> >>]
        ELSE LET t == Token(cleared, "login")
                 c == SiteCall(t, "login", [lgname |-> user, lgpassword |-> password,
                                            lgtoken |-> t.ret])
             IN  IF t.exc # <<>> THEN t
                 ELSE IF c.exc # <<>> THEN c
                 ELSE [c EXCEPT !.lod = <<>>, !.logged_in = TRUE]

\* Login that leaves the deferred credentials in place after a success
Login_StaysPending(st, user, password, on_demand) ==
    LET cleared == [st EXCEPT !.tokens = <<>>]
    IN  IF on_demand
        THEN [cleared EXCEPT !.lod = << << user, password >> >>]
        ELSE LET t == Token(cleared, "login")
                 c == SiteCall(t, "login", [lgname |-> user, lgpassword |-> password,
                                            lgtoken |-> t.ret])
             IN  IF t.exc # <<>> THEN t
                 ELSE IF c.exc # <<>> THEN c
                 ELSE IF c.ret["login"]["result"] # "Success"
                      THEN [c EXCEPT !.exc = << ApiErrorOf("Login failed") >>]
                      ELSE [c EXCEPT !.logged_in = TRUE]

\* Site.login
Login(st, user, password, on_demand) ==
    LET cleared == [st EXCEPT !.tokens = <<>>]
    IN  IF on_demand
        THEN [cleared EXCEPT !.lod = << << user, password >> >>]
        ELSE LET t == Token(cleared, "login")
                 c == SiteCall(t, "login", [lgname |-> user, lgpassword |-> password,
                                            lgtoken |-> t.ret])
             IN  IF t.exc # <<>> THEN t
                 ELSE IF c.exc # <<>> THEN c
                 ELSE IF c.ret["login"]["result"] # "Success"
                      THEN [c EXCEPT !.exc = << ApiErrorOf("Login failed") >>]
                      ELSE [c EXCEPT !.lod = <<>>, !.logged_in = TRUE]

\* Token that never looks into the cache
Token_AlwaysFetches(st, type) ==
    LET c == SiteCall(st, "query", [meta |-> "tokens", type |-> type,
                                    NO_LOGIN |-> (type = "login"),
                                    continue |-> "", formatversion |-> 2])
        value == c.ret["query"]["tokens"][TokenKey(type)]
    IN  IF c.exc # <<>> THEN c
        ELSE [c EXCEPT !.tokens = Update(@, type :> value), !.ret = value]

\* Site.token: the first page of query(meta='tokens', ...)
Token(st, type) ==
    IF type \in DOMAIN st.tokens
    THEN [st EXCEPT !.ret = st.tokens[type]]
    ELSE LET c == SiteCall(st, "query", [meta |-> "tokens", type |-> type,
                                         NO_LOGIN |-> (type = "login"),
                                         continue |-> "", formatversion |-> 2])
             value == c.ret["query"]["tokens"][TokenKey(type)]
         IN  IF c.exc # <<>> THEN c
             ELSE [c EXCEPT !.tokens = Update(@, type :> value), !.ret = value]

\* the session as an operation finds it, with the answers the server will give
Session(feed) ==
    [tokens |-> tokens, lod |-> loginOnDemand, logged_in |-> logged_in,
     sent |-> sent, feed |-> feed, exc |-> <<>>, ret |-> <<>>]

\* the operation is over: the session is stored and the operation logged
Done(st, entry) ==
    /\ Len(ops) < MaxOps
    /\ st.feed = <<>>
    /\ st.exc # << Starved >>
    /\ tokens' = st.tokens
    /\ loginOnDemand' = st.lod
    /\ logged_in' = st.logged_in
    /\ sent' = st.sent
    /\ ops' = Append(ops, [entry EXCEPT !.first = Len(sent) + 1,
                                        !.last = Len(st.sent),
                                        !.raised = st.exc,
                                        !.pending = loginOnDemand,
                                        !.cached = tokens,
                                        !.logged_in = logged_in])

NoEntry ==
    [op |-> "", user |-> "", password |-> "", on_demand |-> FALSE, type |-> "",
     action |-> "", no_login |-> "", ret |-> "", first |-> 0, last |-> 0,
     raised |-> <<>>, pending |-> <<>>, cached |-> <<>>, logged_in |-> FALSE]

\* the user calls site.login(user, password, on_demand)
UserLogin(user, password, on_demand, feed) ==
    Done(Login(Session(feed), user, password, on_demand),
         [NoEntry EXCEPT !.op = "login", !.user = user, !.password = password,
                         !.on_demand = on_demand])

\* the user calls site.token(type)
UserToken(type, feed) ==
    LET st == Token(Session(feed), type)
    IN  Done(st, [NoEntry EXCEPT !.op = "token", !.type = type,
                                 !.ret = IF st.exc = <<>> THEN st.ret ELSE ""])

\* NO_LOGIN as the caller passes it (Site.token passes NO_LOGIN=False)
NoLoginChoices == { "absent", "True" }

CallKwargs(no_login) ==
    IF no_login = "absent" THEN [titles |-> "A"]
    ELSE [titles |-> "A", NO_LOGIN |-> (no_login = "True")]

\* the user calls site('query', titles='A'[, NO_LOGIN=...])
UserCall(no_login, feed) ==
    Done(SiteCall(Session(feed), action, CallKwargs(no_login)),
         [NoEntry EXCEPT !.op = "call", !.action = action, !.no_login = no_login])

InitLogin ==
    /\ CallIdle
    /\ IterIdle
    /\ PagesIdle
    /\ LoginIdle
    /\ PrepIdle
    /\ MergeIdle

restOfLogin == <<callVars, iterVars, pagesVars, prepVars, mergeVars>>

NextLogin ==
    \/ \E u \in Users : UserLogin(u[1], u[2], TRUE, <<>>) /\ UNCHANGED restOfLogin
    \/ \E u \in Users, feed \in Feeds :
          UserLogin(u[1], u[2], FALSE, feed) /\ UNCHANGED restOfLogin
    \/ \E type \in TokenTypes, feed \in Feeds :
          UserToken(type, feed) /\ UNCHANGED restOfLogin
    \/ \E n \in NoLoginChoices, feed \in Feeds :
          UserCall(n, feed) /\ UNCHANGED restOfLogin

SpecLogin == InitLogin /\ [][NextLogin]_vars

-----------------------------------------------------------------------------
(* Properties of login and tokens, read off the log of operations          *)

\* the requests operation o resolved, with their answers
Segment(o) == SubSeq(sent, o.first, o.last)

\* the session as operation i left it
PendingAfter(i) == IF i < Len(ops) THEN ops[i + 1].pending ELSE loginOnDemand
CachedAfter(i) == IF i < Len(ops) THEN ops[i + 1].cached ELSE tokens
LoggedInAfter(i) == IF i < Len(ops) THEN ops[i + 1].logged_in ELSE logged_in

TokenFetch(type) ==
    [action |-> "query", meta |-> "tokens", type |-> type, continue |-> "",
     formatversion |-> 2]

IsTokenFetch(e, type) == e.request = TokenFetch(type)
IsLoginRequest(e) == e.request["action"] = "login"
IsRaise(e) == e.answer = [raised |-> "ApiError"]
LoginAnswer(r) == [login |-> [result |-> r]]
OwnRequest == [action |-> "query", titles |-> "A"]

LoginRequests(seg) == { k \in 1..Len(seg) : IsLoginRequest(seg[k]) }

\* operation i went through Site.login and the server answered 'Success'
LoginSucceededIn(i) ==
    \E k \in LoginRequests(Segment(ops[i])) : Segment(ops[i])[k].answer = LoginAnswer("Success")

\* operation i went through Site.login and the server answered another result
LoginRefusedIn(i) ==
    \E k \in LoginRequests(Segment(ops[i])) :
        /\ ~IsRaise(Segment(ops[i])[k])
        /\ Segment(ops[i])[k].answer # LoginAnswer("Success")

IsDeferredLogin(o) == o.op = "login" /\ o.on_demand

\* a call that does not set NO_LOGIN, made while credentials are pending
CallWithLoginPending(o) == o.op = "call" /\ o.no_login = "absent" /\ o.pending # <<>>

\* C12: login(on_demand=True) sends nothing and leaves the credentials
\* pending; the next call that is not a login and does not set NO_LOGIN then
\* sends the login-token fetch, the login request (stored credentials, the
\* token just fetched) and, once the login succeeded, its own request, and
\* nothing else: the token fetch starts no second login.  After a successful
\* login the credentials are no longer pending and no later call sends a
\* login request, until login is called again.
C12_LoginOnDemand ==
    \A i \in 1..Len(ops) :
        LET o == ops[i]
            seg == Segment(o)
        IN  /\ IsDeferredLogin(o) =>
                  /\ seg = <<>>
                  /\ o.raised = <<>>
                  /\ PendingAfter(i) = << << o.user, o.password >> >>
            /\ CallWithLoginPending(o) =>
                  /\ Len(seg) \in 1..3
                  /\ IsTokenFetch(seg[1], "login")
                  /\ ~IsRaise(seg[1]) =>
                        /\ Len(seg) >= 2
                        /\ seg[2].request =
                              [action |-> "login", lgname |-> o.pending[1][1],
                               lgpassword |-> o.pending[1][2],
                               lgtoken |-> seg[1].answer["query"]["tokens"]["logintoken"]]
                  /\ Len(seg) = 3 <=> (Len(seg) >= 2 /\ seg[2].answer = LoginAnswer("Success"))
                  /\ Len(seg) = 3 => seg[3].request = OwnRequest
                  /\ o.raised = <<>> <=> (Len(seg) = 3 /\ ~IsRaise(seg[3]))
            /\ LoginSucceededIn(i) => PendingAfter(i) = <<>>
            /\ (o.op = "call" /\ o.pending = <<>>) =>
                  /\ Len(seg) = 1
                  /\ seg[1].request = OwnRequest
            /\ \A j \in i + 1..Len(ops) :
                  ( /\ LoginSucceededIn(i)
                    /\ ops[j].op = "call"
                    /\ \A m \in i + 1..j - 1 : ops[m].op # "login" )
                  => LoginRequests(Segment(ops[j])) = {}

\* deferred login, a call that logs in first, a call that does not
C12_Witness ==
    /\ Len(ops) = 3
    /\ IsDeferredLogin(ops[1])
    /\ CallWithLoginPending(ops[2]) /\ ops[2].raised = <<>>
    /\ ops[2].last - ops[2].first = 2
    /\ ops[3].op = "call" /\ ops[3].no_login = "absent" /\ ops[3].raised = <<>>
    /\ ops[3].last = ops[3].first

\* the token fetches for `type` among the requests of a segment
TokenFetches(seg, type) == { k \in 1..Len(seg) : IsTokenFetch(seg[k], type) }

\* the token a fetch was answered with
FetchedToken(e) == e.answer["query"]["tokens"][TokenKey(e.request["type"])]

\* Site.login was called in operation i: by the user, or by a call that
\* logs in first (it opens with the login-token fetch)
LoginCalledIn(i) ==
    \/ ops[i].op = "login"
    \/ /\ ~(ops[i].op = "token" /\ ops[i].type = "login")
       /\ Segment(ops[i]) # <<>>
       /\ IsTokenFetch(Segment(ops[i])[1], "login")

\* C13: token(type) fetches only when the type is not cached, and otherwise
\* returns the cached value and sends nothing; a fetch that succeeds is
\* cached under its type and leaves the other types alone; token(type)
\* calls with no login call in between return one value and only the first
\* of them sends; after any login call, deferred or immediate, the cache
\* holds only tokens fetched during that call.
C13_TokenCache ==
    \A i \in 1..Len(ops) :
        LET o == ops[i]
            seg == Segment(o)
        IN  /\ (o.op = "token" /\ o.type \in DOMAIN o.cached) =>
                  /\ seg = <<>>
                  /\ o.raised = <<>>
                  /\ o.ret = o.cached[o.type]
                  /\ CachedAfter(i) = o.cached
            /\ (o.op = "token" /\ o.type \notin DOMAIN o.cached /\ o.raised = <<>>) =>
                  /\ TokenFetches(seg, o.type) = { Len(seg) }
                  /\ o.ret = FetchedToken(seg[Len(seg)])
                  /\ o.type \in DOMAIN CachedAfter(i)
                  /\ CachedAfter(i)[o.type] = o.ret
            /\ (o.op = "token" /\ ~LoginCalledIn(i)) =>
                  \A t \in TokenTypes \ {o.type} :
                      /\ t \in DOMAIN CachedAfter(i) <=> t \in DOMAIN o.cached
                      /\ t \in DOMAIN o.cached => CachedAfter(i)[t] = o.cached[t]
            /\ \A j \in i + 1..Len(ops) :
                  ( /\ o.op = "token" /\ o.raised = <<>>
                    /\ ops[j].op = "token" /\ ops[j].type = o.type
                    /\ \A m \in i + 1..j : ~LoginCalledIn(m) )
                  => /\ Segment(ops[j]) = <<>>
                     /\ ops[j].ret = o.ret
            /\ LoginCalledIn(i) =>
                  \A t \in DOMAIN CachedAfter(i) :
                      \E k \in TokenFetches(seg, t) :
                          /\ ~IsRaise(seg[k])
                          /\ FetchedToken(seg[k]) = CachedAfter(i)[t]
            /\ IsDeferredLogin(o) => CachedAfter(i) = <<>>

\* a fetch, the cached value returned, and a login that empties the cache
C13_Witness ==
    /\ Len(ops) = 3
    /\ ops[1].op = "token" /\ ops[1].type = "csrf" /\ ops[1].raised = <<>>
    /\ ops[1].last = ops[1].first
    /\ ops[2].op = "token" /\ ops[2].type = "csrf" /\ ops[2].ret = ops[1].ret
    /\ ops[2].last < ops[2].first
    /\ ops[3].op = "login"
    /\ ops[3].cached = ("csrf" :> ops[1].ret)
    /\ "csrf" \notin DOMAIN tokens

\* C14: when the server answers a login request with a result other than
\* 'Success', Site.login raises ApiError('Login failed'), nothing is sent
\* after the login request, and logged_in and the pending credentials are as
\* they were, so the next call that does not set NO_LOGIN opens with a new
\* login attempt; on 'Success' logged_in is true and no credentials are
\* pending.  logged_in is never true before a login succeeded.
C14_LoginResult ==
    /\ \A i \in 1..Len(ops) :
        LET o == ops[i]
            seg == Segment(o)
        IN  /\ LoginRefusedIn(i) =>
                  /\ o.raised = << ApiErrorOf("Login failed") >>
                  /\ IsLoginRequest(seg[Len(seg)])
                  /\ LoggedInAfter(i) = o.logged_in
                  /\ PendingAfter(i) = o.pending
                  /\ ( /\ i < Len(ops)
                       /\ o.pending # <<>>
                       /\ ops[i + 1].op = "call"
                       /\ ops[i + 1].no_login = "absent" )
                     => IsTokenFetch(Segment(ops[i + 1])[1], "login")
            /\ LoginSucceededIn(i) =>
                  /\ LoggedInAfter(i)
                  /\ PendingAfter(i) = <<>>
    /\ logged_in => \E i \in 1..Len(ops) : LoginSucceededIn(i)

\* a login on demand that the server refuses, then accepts at the next call
C14_Witness ==
    /\ Len(ops) = 3
    /\ IsDeferredLogin(ops[1])
    /\ ops[2].op = "call" /\ LoginRefusedIn(2)
    /\ ops[3].op = "call" /\ LoginSucceededIn(3)
    /\ ops[3].pending # <<>> /\ ~ops[3].logged_in
    /\ logged_in /\ loginOnDemand = <<>>

-----------------------------------------------------------------------------
(* Site._prepare_call, lines 191-259                                       *)

\* Python values of a parameter.  The text of a str is its sequence of code
\* points; a name is a str of ASCII characters, written as a string.
PyStr(text) == [type |-> "str", val |-> text]
PyName(name) == [type |-> "name", val |-> name]
PyInt(n) == [type |-> "int", val |-> n]
PyBool(b) == [type |-> "bool", val |-> b]
PyNone == [type |-> "none", val |-> 0]
PyList(items) == [type |-> "list", val |-> items]

\* str(n) for n >= 0, as code points
RECURSIVE Decimal(_)
Decimal(n) == IF n < 10 THEN << 48 + n >> ELSE Append(Decimal(n \div 10), 48 + (n % 10))

\* update_value (lines 209-221): <<>> is None
update_value(value) ==
    CASE value.type = "none" -> <<>>
      [] value.type = "bool" -> IF value.val THEN << << 49 >> >> ELSE <<>>
      [] value.type = "int" -> << Decimal(value.val) >>
      [] value.type = "str" -> << value.val >>

\* '|'.join of the items that are not None (lines 231-232)
RECURSIVE Join(_)
Join(items) ==
    IF items = <<>> THEN <<>>
    ELSE LET first == update_value(Head(items))
             rest == Join(Tail(items))
         IN  IF first = <<>> THEN rest
             ELSE IF rest = <<>> THEN << first[1] >>
             ELSE << first[1] \o << 124 >> \o rest[1] >>

\* lines 223-238 for one value: <<text>> to keep, <<>> to delete the key
Converted(value) ==
    IF value.type = "list"
    THEN IF Join(value.val) = <<>> THEN << <<>> >> ELSE Join(value.val)
    ELSE update_value(value)

\* lines 205-245: the parameters sent to the server
FinalKwargs(act, kw) ==
    LET plain == DOMAIN kw \ Magic
        kept == { k \in plain : Converted(kw[k]) # <<>> }
        values == [ k \in kept |-> PyStr(Converted(kw[k])[1]) ]
        named == Update(Update(values, "action" :> PyName(act)), "format" :> PyName("json"))
        versioned == IF "formatversion" \notin DOMAIN named
                     THEN Update(named, "formatversion" :> PyInt(2))
                     ELSE named
    IN  IF maxlag # <<>> /\ "maxlag" \notin DOMAIN versioned
        THEN Update(versioned, "maxlag" :> PyInt(maxlag[1]))
        ELSE versioned

\* the bytes of one code point in UTF-8
Utf8Bytes(cp) ==
    IF cp < 128 THEN 1 ELSE IF cp < 2048 THEN 2 ELSE IF cp < 65536 THEN 3 ELSE 4

RECURSIVE Utf8Len(_)
Utf8Len(text) == IF text = <<>> THEN 0 ELSE Utf8Bytes(Head(text)) + Utf8Len(Tail(text))

\* StrBytes counting characters, not bytes
StrBytes_CountsCharacters(value) ==
    CASE value.type = "str" -> Len(value.val)
      [] value.type = "name" -> Len(value.val)
      [] value.type = "int" -> Len(Decimal(value.val))

\* len(str(v).encode('utf-8')) (line 249)
StrBytes(value) ==
    CASE value.type = "str" -> Utf8Len(value.val)
      [] value.type = "name" -> Len(value.val)
      [] value.type = "int" -> Len(Decimal(value.val))

\* lines 248-250; the keys are ASCII names
RECURSIVE DataSizeOver(_, _)
DataSizeOver(keys, final) ==
    IF keys = {} THEN 0
    ELSE LET k == CHOOSE key \in keys : TRUE
         IN  Len(k) + StrBytes(final[k]) + 2 + DataSizeOver(keys \ {k}, final)

data_size(final) == DataSizeOver(DOMAIN final, final)

\* lines 199 and 251-252
Method(act, kw) ==
    LET chosen == IF "POST" \in DOMAIN kw \/ act \in {"login", "edit"}
                  THEN "POST" ELSE "GET"
    IN  IF data_size(FinalKwargs(act, kw)) > auto_post_min_size THEN "POST" ELSE chosen

\* lines 200-203 and 254-257, without EXTRAS and with no_ssl = False
RequestKw(act, kw) ==
    LET force_ssl == act = "login" \/ "SSL" \in DOMAIN kw \/ "HTTPS" \in DOMAIN kw
    IN  IF Method(act, kw) = "POST"
        THEN [force_ssl |-> force_ssl, data |-> FinalKwargs(act, kw)]
        ELSE [force_ssl |-> force_ssl, params |-> FinalKwargs(act, kw)]

PrepareCall ==
    /\ method = ""
    /\ method' = Method(call_action, call_kwargs)
    /\ request_kw' = RequestKw(call_action, call_kwargs)
    /\ UNCHANGED <<call_action, call_kwargs, auto_post_min_size, maxlag>>

\* texts of one to four bytes a character
A == << 65 >>
Eacute == << 233 >>
Euro == << 8364 >>
Grin == << 128512 >>

PrepKwargs ==
    { [titles |-> PyStr(A)],
      [titles |-> PyStr(Eacute)],
      [titles |-> PyStr(Euro)],
      [titles |-> PyStr(Grin)],
      [titles |-> PyStr(A \o A)],
      [titles |-> PyStr(A \o Eacute \o Grin)],
      [titles |-> PyList(<< PyStr(A), PyNone, PyInt(12) >>)],
      [titles |-> PyStr(A), POST |-> PyBool(FALSE)],
      [titles |-> PyStr(A), POST |-> PyBool(TRUE)],
      [titles |-> PyStr(A), redirects |-> PyBool(TRUE)],
      [titles |-> PyStr(A), redirects |-> PyBool(FALSE)],
      [titles |-> PyStr(A), prop |-> PyNone],
      [titles |-> PyStr(A), maxlag |-> PyInt(5)],
      [titles |-> PyStr(A), formatversion |-> PyInt(1)],
      [titles |-> PyStr(Euro), NO_LOGIN |-> PyBool(TRUE), SSL |-> PyBool(TRUE)] }

PrepActions == { "query", "login", "edit", "parse" }

\* thresholds around the sizes of the requests above, and the default
Thresholds == 55..66 \cup { DefaultAutoPostMinSize }

InitPrep ==
    /\ CallIdle
    /\ IterIdle
    /\ PagesIdle
    /\ LoginIdle
    /\ MergeIdle
    /\ call_action \in PrepActions
    /\ call_kwargs \in PrepKwargs
    /\ auto_post_min_size \in Thresholds
    /\ maxlag \in { <<>>, << DefaultMaxlag >> }
    /\ method = ""
    /\ request_kw = <<>>

NextPrep == PrepareCall /\ UNCHANGED <<callVars, iterVars, pagesVars, loginVars, mergeVars>>

SpecPrep == InitPrep /\ [][NextPrep]_vars

-----------------------------------------------------------------------------
(* Properties of Site._prepare_call                                        *)

\* the parameter set _prepare_call hands over
FinalParameters ==
    IF "data" \in DOMAIN request_kw THEN request_kw["data"] ELSE request_kw["params"]

\* the bytes of the text of a final value: UTF-8 takes one byte below U+0080,
\* two below U+0800, three below U+10000 and four above
EncodedLen(value) ==
    IF value.type = "str"
    THEN LET t == value.val
             at(n) == Cardinality({ i \in 1..Len(t) : t[i] >= n })
         IN  Len(t) + at(128) + at(2048) + at(65536)
    ELSE IF value.type = "name" THEN Len(value.val)
    ELSE Cardinality({ d \in 0..9 : value.val >= 10 ^ d \/ d = 0 })

RECURSIVE EstimatedSize(_)
EstimatedSize(keys) ==
    IF keys = {} THEN 0
    ELSE LET k == CHOOSE key \in keys : TRUE
         IN  Len(k) + EncodedLen(FinalParameters[k]) + 2 + EstimatedSize(keys \ {k})

\* C15: the method is POST when the estimated size of the final parameters
\* (each key and value, the injected action, format, formatversion and maxlag
\* included, as UTF-8 bytes plus 2) exceeds auto_post_min_size, when the
\* action is 'login' or 'edit', and when a POST directive is present whatever
\* its value; it is GET otherwise.  POST sends the parameters as data, GET as
\* params.
C15_MethodSelection ==
    method # "" =>
        /\ method = IF \/ EstimatedSize(DOMAIN FinalParameters) > auto_post_min_size
                       \/ call_action \in {"login", "edit"}
                       \/ "POST" \in DOMAIN call_kwargs
                    THEN "POST" ELSE "GET"
        /\ "data" \in DOMAIN request_kw <=> method = "POST"
        /\ "params" \in DOMAIN request_kw <=> method = "GET"

\* a query without POST directive whose multi-byte title takes it one byte
\* over the threshold
C15_Witness ==
    /\ method = "POST"
    /\ call_action = "query"
    /\ call_kwargs = [titles |-> PyStr(Grin)]
    /\ maxlag # <<>>
    /\ EstimatedSize(DOMAIN FinalParameters) = auto_post_min_size + 1
    /\ auto_post_min_size = 62

-----------------------------------------------------------------------------
(* Site._merge_page on its own: every pair of small fragments              *)

MergeFields == { "x", "y" }

\* values of a field: scalars, lists, mappings (empty, flat, nested)
MergeValues ==
    { Scalar(1), Scalar(2),
      List(<<>>), List(<<1>>), List(<<2, 3>>),
      Dict(<<>>), Dict([u |-> Scalar(1)]), Dict([u |-> List(<<1>>)]),
      Dict([u |-> Scalar(2), v |-> Scalar(3)]),
      Dict([u |-> Dict([w |-> Scalar(1)])]) }

Fragments == UNION { [fields -> MergeValues] : fields \in SUBSET MergeFields }

\* self._merge_page(a, b) is called
CallMergePage ==
    /\ merge_out = <<>>
    /\ merge_out' = << MergePage(merge_a, merge_b) >>
    /\ UNCHANGED <<merge_a, merge_b>>

InitMerge ==
    /\ CallIdle
    /\ IterIdle
    /\ PagesIdle
    /\ LoginIdle
    /\ PrepIdle
    /\ merge_a \in Fragments
    /\ merge_b \in Fragments
    /\ merge_out = <<>>

NextMerge == CallMergePage /\ UNCHANGED <<callVars, iterVars, pagesVars, loginVars, prepVars>>

SpecMerge == InitMerge /\ [][NextMerge]_vars

-----------------------------------------------------------------------------
(* Properties of Site._merge_page                                          *)

\* the merge rule: mappings merge field by field, lists are concatenated,
\* anything else is replaced by the value of b; fields only in a stay
RECURSIVE MergeRule(_, _)
MergeRule(a, b) ==
    [ k \in DOMAIN a \cup DOMAIN b |->
        IF k \notin DOMAIN b THEN a[k]
        ELSE IF k \notin DOMAIN a THEN b[k]
        ELSE IF a[k].type = "dict" /\ b[k].type = "dict"
             THEN Dict(MergeRule(a[k].val, b[k].val))
        ELSE IF a[k].type = "list" /\ b[k].type = "list"
             THEN List(a[k].val \o b[k].val)
        ELSE b[k] ]

\* C19: for every pair of fragments _merge_page(a, b) returns normally and
\* leaves in a what the merge rule says: mappings merged recursively, lists
\* concatenated, and b's value in every other case, a different shape on the
\* two sides included.
C19_MergeRule ==
    merge_out # <<>> =>
        /\ merge_out[1].ok
        /\ merge_out[1].val = MergeRule(merge_a, merge_b)

\* a and b agree in shape wherever both have a field, at every depth
RECURSIVE SameShapes(_, _)
SameShapes(a, b) ==
    \A k \in DOMAIN a \cap DOMAIN b :
        \/ a[k].type = b[k].type /\ a[k].type # "dict"
        \/ a[k].type = "dict" /\ b[k].type = "dict" /\ SameShapes(a[k].val, b[k].val)
        \/ b[k].type = "scalar"

\* where the shapes agree, or b's value is a scalar, the rule is followed
C19_SameShapesFollowRule ==
    (merge_out # <<>> /\ SameShapes(merge_a, merge_b)) =>
        /\ merge_out[1].ok
        /\ merge_out[1].val = MergeRule(merge_a, merge_b)

====
